---- MODULE Spec2Model ----
(***************************************************************************)
(* Model of run_scraper.js: a single-shot command-line wrapper that reads  *)
(* a search term from process.argv, calls the google-news-scraper Provider *)
(* once with a fixed configuration, and prints the result as JSON on       *)
(* stdout, or an {error: ...} report on stderr followed by exit status 1.  *)
(*                                                                         *)
(* JavaScript values are tagged records ([t |-> "undefined"], ...).  Text   *)
(* written to stdout is a sequence of JSON lexemes (punctuation, quoted    *)
(* strings, single spaces and newlines); text written to stderr is a       *)
(* string.  The strings of the model contain no character that JSON        *)
(* escapes, so quoting a string only surrounds it with double quotes.      *)
(***************************************************************************)
EXTENDS Integers, Sequences, FiniteSets, TLC

VARIABLES argv, pc, searchTerm, articles, error, provider, config, calls,
          stdout, stderr, exitCode, path

vars == <<argv, pc, searchTerm, articles, error, provider, config, calls,
          stdout, stderr, exitCode, path>>

(***************************************************************************)
(* Bounds and program constants                                            *)
(***************************************************************************)
MaxLen == 2          \* longest Provider result with arbitrary content
ResultLimit == 15    \* limit: 15
IndentWidth == 2     \* JSON.stringify(articles, null, 2)

(***************************************************************************)
(* JavaScript values                                                       *)
(***************************************************************************)
Undefined == [t |-> "undefined"]
Null == [t |-> "null"]
Str(s) == [t |-> "string", v |-> s]
Arr(items) == [t |-> "array", items |-> items]
ErrorObj(m) == [t |-> "Error", message |-> m]
PlainObj == [t |-> "object"]            \* an object without a message property
Circular == [t |-> "circular"]          \* a value that references itself

\* The search terms a run may be started with ("" is an empty argument).
SearchTerms == {"", " ", "x", " x ", "0", "budget 2024"}

\* process.argv: the interpreter, the script, then the user's arguments.
ArgvChoices ==
    {<<"node", "run_scraper.js">>} \cup
    {<<"node", "run_scraper.js", s>> : s \in SearchTerms}

\* process.argv[i], zero-based as in JavaScript; undefined past the end.
ArgvAt(i) == IF i + 1 <= Len(argv) THEN Str(argv[i + 1]) ELSE Undefined

\* ToBoolean as a test against undefined alone (searchTerm === undefined).
ToBooleanUndefinedOnly(v) == v.t # "undefined"

\* JavaScript ToBoolean.
ToBoolean(v) ==
    CASE v.t \in {"undefined", "null"} -> FALSE
      [] v.t = "string" -> v.v # ""
      [] OTHER -> TRUE

\* JavaScript ToString, as a template literal applies it.
StringOf(v) ==
    CASE v.t = "undefined" -> "undefined"
      [] v.t = "null" -> "null"
      [] v.t = "string" -> v.v
      [] OTHER -> "[object Object]"

\* Property access error.message; reading a property of null or undefined
\* throws a TypeError.
ThrowsOnMessage(e) == e.t \in {"undefined", "null"}
GetMessage(e) == IF "message" \in DOMAIN e THEN Str(e.message) ELSE Undefined

(***************************************************************************)
(* Articles and Provider outcomes                                          *)
(***************************************************************************)
\* An article is an object: its members in insertion order.
Titles == {"A", "B"}
Articles ==
    {<< <<"title", ti>>, <<"link", "u">> >> : ti \in Titles} \cup
    {<< <<"link", "u">>, <<"title", "A">> >>}

SeqUpTo(S, n) == UNION {[1..k -> S] : k \in 0..n}

\* A result longer than the requested limit.
LongResult == [i \in 1..(ResultLimit + 1) |-> << <<"title", "A">>, <<"link", "u">> >>]

ResultSets == SeqUpTo(Articles, MaxLen) \cup {LongResult}

\* Values the Provider's promise may be fulfilled with.
ReturnValues == {Arr(r) : r \in ResultSets} \cup {Circular}

\* Values the Provider's promise may be rejected with.
Messages == {"network timeout", ""}
Reasons == {ErrorObj(m) : m \in Messages} \cup {PlainObj, Str("boom"), Null, Undefined}

(***************************************************************************)
(* JSON.stringify                                                          *)
(***************************************************************************)
Quote(s) == "\"" \o s \o "\""

Indent(n) == [i \in 1..n |-> " "]

RECURSIVE Join(_, _)
\* The parts, with a comma and a newline between consecutive ones.
Join(parts, i) ==
    IF i > Len(parts) THEN <<>>
    ELSE parts[i] \o (IF i < Len(parts) THEN <<",", "\n">> ELSE <<>>) \o Join(parts, i + 1)

StringifyMember(m, ind) == Indent(ind) \o <<Quote(m[1]), ":", " ", Quote(m[2])>>

\* StringifyObject without the last member of the object.
StringifyObjectDropLast(obj, ind) ==
    IF Len(obj) <= 1 THEN <<"{", "}">>
    ELSE <<"{", "\n">>
         \o Join([i \in 1..(Len(obj) - 1) |-> StringifyMember(obj[i], ind + IndentWidth)], 1)
         \o <<"\n">> \o Indent(ind) \o <<"}">>

StringifyObject(obj, ind) ==
    IF obj = <<>> THEN <<"{", "}">>
    ELSE <<"{", "\n">>
         \o Join([i \in 1..Len(obj) |-> StringifyMember(obj[i], ind + IndentWidth)], 1)
         \o <<"\n">> \o Indent(ind) \o <<"}">>

StringifyArray(arr, ind) ==
    IF arr = <<>> THEN <<"[", "]">>
    ELSE <<"[", "\n">>
         \o Join([i \in 1..Len(arr) |->
                    Indent(ind + IndentWidth) \o StringifyObject(arr[i], ind + IndentWidth)], 1)
         \o <<"\n">> \o Indent(ind) \o <<"]">>

\* JSON.stringify of articles.slice(0, limit) in place of articles.
JSONstringifyTruncated(value) ==
    IF value.t = "circular"
    THEN [threw |-> TRUE, error |-> ErrorObj("Converting circular structure to JSON")]
    ELSE [threw |-> FALSE,
          text |-> StringifyArray(
                     SubSeq(value.items, 1,
                            IF Len(value.items) < ResultLimit THEN Len(value.items)
                            ELSE ResultLimit), 0)]

\* JSON.stringify(value, null, 2): the text, or the TypeError it throws.
JSONstringify(value) ==
    IF value.t = "circular"
    THEN [threw |-> TRUE, error |-> ErrorObj("Converting circular structure to JSON")]
    ELSE [threw |-> FALSE, text |-> StringifyArray(value.items, 0)]

\* JSON.stringify({ error: message }): one line, no spaces.
StringifyReport(message) == "{" \o Quote("error") \o ":" \o Quote(message) \o "}"

(***************************************************************************)
(* Reading JSON text back: what a consumer of stdout does with the text;   *)
(* used to state the properties, not part of run_scraper.js.               *)
(***************************************************************************)
\* The strings that occur as keys or values of articles.
JSONStrings == {"title", "link", "u"} \cup Titles

Unquote(tok) == CHOOSE s \in JSONStrings : Quote(s) = tok

IsSpace(tok) == tok \in {" ", "\n"}

\* The lexemes without the insignificant whitespace between them.
Strip(text) == SelectSeq(text, LAMBDA tok : ~IsSpace(tok))

RECURSIVE ParseMembers(_, _, _)
\* toks[i] is a key; the members up to the closing brace, and the index after it.
ParseMembers(toks, i, acc) ==
    LET acc2 == Append(acc, <<Unquote(toks[i]), Unquote(toks[i + 2])>>)
    IN IF toks[i + 3] = ","
       THEN ParseMembers(toks, i + 4, acc2)
       ELSE [val |-> acc2, next |-> i + 4]

\* toks[i] is an opening brace.
ParseObject(toks, i) ==
    IF toks[i + 1] = "}"
    THEN [val |-> <<>>, next |-> i + 2]
    ELSE ParseMembers(toks, i + 1, <<>>)

RECURSIVE ParseElements(_, _, _)
\* toks[i] opens an element; the elements up to the closing bracket.
ParseElements(toks, i, acc) ==
    LET o == ParseObject(toks, i)
        acc2 == Append(acc, o.val)
    IN IF toks[o.next] = ","
       THEN ParseElements(toks, o.next + 1, acc2)
       ELSE acc2

\* JSON.parse of the text of an array of objects with string members.
JSONparse(text) ==
    LET toks == Strip(text)
    IN IF toks[2] = "]" THEN <<>> ELSE ParseElements(toks, 2, <<>>)

(***************************************************************************)
(* The configuration passed to the Provider                                *)
(***************************************************************************)
\* String.prototype.trim on the search terms of the model.
Trim(term) ==
    CASE term = " " -> ""
      [] term = " x " -> "x"
      [] OTHER -> term

\* BuildConfig with searchTerm: searchTerm.trim().
BuildConfigTrimmed(term) ==
    [searchTerm |-> Trim(term),
     prettyURLs |-> TRUE,
     timeframe |-> "7d",
     puppeteerArgs |-> <<"--no-sandbox", "--disable-setuid-sandbox">>,
     logLevel |-> "error",
     limit |-> ResultLimit]

BuildConfig(term) ==
    [searchTerm |-> term,
     prettyURLs |-> TRUE,
     timeframe |-> "7d",
     puppeteerArgs |-> <<"--no-sandbox", "--disable-setuid-sandbox">>,
     logLevel |-> "error",
     limit |-> ResultLimit]

(***************************************************************************)
(* Control position and the design's state names                           *)
(***************************************************************************)
StateLabel(p, code) ==
    CASE p = "Start" -> "Start"
      [] p = "ValidatingArgument" -> "ValidatingArgument"
      [] p = "FailingMissingArg" -> "Failing(missingArg)"
      [] p \in {"ExitMissingArg", "ExitFailure"} -> "Emitting(error)"
      [] p \in {"Retrieving", "Awaiting"} -> "Retrieving"
      [] p \in {"EmittingSuccess", "Returned"} -> "Emitting(success)"
      [] p = "Failing" -> "Failing"
      [] p = "Unhandled" -> "UnhandledRejection"
      [] p = "Exited" -> IF code = 0 THEN "Exit(0)" ELSE "Exit(1)"

\* The sequence of design states the run has been in.
Visit(p, code) ==
    LET l == StateLabel(p, code)
    IN path' = IF path[Len(path)] = l THEN path ELSE Append(path, l)

Idle == [status |-> "idle"]
Pending == [status |-> "pending"]

Init ==
    /\ argv \in ArgvChoices
    /\ pc = "Start"
    /\ searchTerm = Undefined
    /\ articles = Undefined
    /\ error = Undefined
    /\ provider = Idle
    /\ config = Undefined
    /\ calls = 0
    /\ stdout = <<>>
    /\ stderr = <<>>
    /\ exitCode = 0
    /\ path = <<"Start">>

(***************************************************************************)
(* main()                                                                  *)
(***************************************************************************)
\* const searchTerm = process.argv[2];
ReadArgument ==
    /\ pc = "Start"
    /\ searchTerm' = ArgvAt(2)
    /\ pc' = "ValidatingArgument"
    /\ Visit(pc', exitCode)
    /\ UNCHANGED <<argv, articles, error, provider, config, calls, stdout, stderr, exitCode>>

\* if (!searchTerm) { ... }
ValidateArgument ==
    /\ pc = "ValidatingArgument"
    /\ pc' = IF ~ToBoolean(searchTerm) THEN "FailingMissingArg" ELSE "Retrieving"
    /\ Visit(pc', exitCode)
    /\ UNCHANGED <<argv, searchTerm, articles, error, provider, config, calls, stdout, stderr,
                   exitCode>>

\* console.error(JSON.stringify({ error: "No search term provided." }));
ReportMissingArgument ==
    /\ pc = "FailingMissingArg"
    /\ stderr' = Append(stderr, StringifyReport("No search term provided."))
    /\ pc' = "ExitMissingArg"
    /\ Visit(pc', exitCode)
    /\ UNCHANGED <<argv, searchTerm, articles, error, provider, config, calls, stdout, exitCode>>

\* process.exit(1) after the missing-argument report.
ExitMissingArg ==
    /\ pc = "ExitMissingArg"
    /\ exitCode' = 1
    /\ pc' = "Exited"
    /\ Visit(pc', exitCode')
    /\ UNCHANGED <<argv, searchTerm, articles, error, provider, config, calls, stdout, stderr>>

\* googleNewsScraper({ searchTerm: searchTerm, ... }): the call is issued and
\* main() suspends at the await.
InvokeProvider ==
    /\ pc = "Retrieving"
    /\ config' = BuildConfig(searchTerm.v)
    /\ calls' = calls + 1
    /\ provider' = Pending
    /\ pc' = "Awaiting"
    /\ Visit(pc', exitCode)
    /\ UNCHANGED <<argv, searchTerm, articles, error, stdout, stderr, exitCode>>

\* The Provider's promise is fulfilled with some value.  The Provider is an
\* external collaborator: its work in progress keeps the process alive while
\* the call is pending, and nothing obliges it to settle.
ProviderFulfil ==
    /\ provider.status = "pending"
    /\ \E v \in ReturnValues : provider' = [status |-> "fulfilled", value |-> v]
    /\ UNCHANGED <<argv, pc, searchTerm, articles, error, config, calls, stdout, stderr,
                   exitCode, path>>

\* The Provider's promise is rejected with some reason.
ProviderReject ==
    /\ provider.status = "pending"
    /\ \E e \in Reasons : provider' = [status |-> "rejected", value |-> e]
    /\ UNCHANGED <<argv, pc, searchTerm, articles, error, config, calls, stdout, stderr,
                   exitCode, path>>

\* ResumeFulfilled that treats an empty result as a failure
\* (if (!articles.length) throw new Error("no articles")).
ResumeFulfilledRejectEmpty ==
    /\ pc = "Awaiting"
    /\ provider.status = "fulfilled"
    /\ IF provider.value.t = "array" /\ provider.value.items = <<>>
       THEN /\ error' = ErrorObj("no articles")
            /\ pc' = "Failing"
            /\ articles' = articles
       ELSE /\ articles' = provider.value
            /\ pc' = "EmittingSuccess"
            /\ error' = error
    /\ Visit(pc', exitCode)
    /\ UNCHANGED <<argv, searchTerm, provider, config, calls, stdout, stderr, exitCode>>

\* const articles = await ...: the await resumes with the fulfilment value.
ResumeFulfilled ==
    /\ pc = "Awaiting"
    /\ provider.status = "fulfilled"
    /\ articles' = provider.value
    /\ pc' = "EmittingSuccess"
    /\ Visit(pc', exitCode)
    /\ UNCHANGED <<argv, searchTerm, error, provider, config, calls, stdout, stderr, exitCode>>

\* ResumeRejected that calls the Provider a second time after a first failure.
ResumeRejectedRetry ==
    /\ pc = "Awaiting"
    /\ provider.status = "rejected"
    /\ IF calls < 2
       THEN /\ pc' = "Retrieving"
            /\ provider' = Idle
            /\ error' = error
       ELSE /\ error' = provider.value
            /\ pc' = "Failing"
            /\ provider' = provider
    /\ Visit(pc', exitCode)
    /\ UNCHANGED <<argv, searchTerm, articles, config, calls, stdout, stderr, exitCode>>

\* ResumeRejected that also gives up on a call that is still pending
\* (a timeout raced against the Provider's promise).
ResumeRejectedTimeout ==
    /\ pc = "Awaiting"
    /\ provider.status \in {"pending", "rejected"}
    /\ error' = IF provider.status = "pending" THEN ErrorObj("timeout") ELSE provider.value
    /\ pc' = "Failing"
    /\ Visit(pc', exitCode)
    /\ UNCHANGED <<argv, searchTerm, articles, provider, config, calls, stdout, stderr, exitCode>>

\* The await throws the rejection reason, which catch (error) binds.
ResumeRejected ==
    /\ pc = "Awaiting"
    /\ provider.status = "rejected"
    /\ error' = provider.value
    /\ pc' = "Failing"
    /\ Visit(pc', exitCode)
    /\ UNCHANGED <<argv, searchTerm, articles, provider, config, calls, stdout, stderr, exitCode>>

\* console.log(JSON.stringify(articles, null, 2)); a TypeError thrown by
\* JSON.stringify is caught by the enclosing catch.
EmitSuccess ==
    /\ pc = "EmittingSuccess"
    /\ LET r == JSONstringify(articles)
       IN IF r.threw
          THEN /\ error' = r.error
               /\ pc' = "Failing"
               /\ stdout' = stdout
          ELSE /\ stdout' = Append(stdout, r.text)
               /\ pc' = "Returned"
               /\ error' = error
    /\ Visit(pc', exitCode)
    /\ UNCHANGED <<argv, searchTerm, articles, provider, config, calls, stderr, exitCode>>

\* main() has returned and nothing is left to run: the process ends with
\* the default exit status.
ImplicitExit ==
    /\ pc = "Returned"
    /\ exitCode' = 0
    /\ pc' = "Exited"
    /\ Visit(pc', exitCode')
    /\ UNCHANGED <<argv, searchTerm, articles, error, provider, config, calls, stdout, stderr>>

\* console.error(JSON.stringify({ error: `Scraper failed: ${error.message}` }));
\* error.message throws inside the catch block when error is null or
\* undefined, and the promise main() returned is rejected.
ReportFailure ==
    /\ pc = "Failing"
    /\ IF ThrowsOnMessage(error)
       THEN /\ pc' = "Unhandled"
            /\ stderr' = stderr
       ELSE /\ stderr' = Append(stderr,
                           StringifyReport("Scraper failed: " \o StringOf(GetMessage(error))))
            /\ pc' = "ExitFailure"
    /\ Visit(pc', exitCode)
    /\ UNCHANGED <<argv, searchTerm, articles, error, provider, config, calls, stdout, exitCode>>

\* process.exit(1) at the end of the catch block.
ExitFailure ==
    /\ pc = "ExitFailure"
    /\ exitCode' = 1
    /\ pc' = "Exited"
    /\ Visit(pc', exitCode')
    /\ UNCHANGED <<argv, searchTerm, articles, error, provider, config, calls, stdout, stderr>>

\* What the runtime writes for a rejection nobody handles.
UncaughtDump == "TypeError: Cannot read properties of null (reading 'message')"
RejectionWarning == "UnhandledPromiseRejectionWarning: TypeError"

\* main(); attaches no handler to the promise it gets.  Depending on the
\* runtime's unhandled-rejection mode the process prints the error and ends
\* with status 1, or prints a warning and ends with status 0.
UnhandledRejection ==
    /\ pc = "Unhandled"
    /\ \E mode \in {"throw", "warn"} :
          /\ stderr' = Append(stderr, IF mode = "throw" THEN UncaughtDump ELSE RejectionWarning)
          /\ exitCode' = IF mode = "throw" THEN 1 ELSE 0
    /\ pc' = "Exited"
    /\ Visit(pc', exitCode')
    /\ UNCHANGED <<argv, searchTerm, articles, error, provider, config, calls, stdout>>

\* The steps of the process itself (everything but the Provider's settling).
Main ==
    \/ ReadArgument
    \/ ValidateArgument
    \/ ReportMissingArgument
    \/ ExitMissingArg
    \/ InvokeProvider
    \/ ResumeFulfilled
    \/ ResumeRejected
    \/ EmitSuccess
    \/ ImplicitExit
    \/ ReportFailure
    \/ ExitFailure
    \/ UnhandledRejection

Next ==
    \/ ReadArgument
    \/ ValidateArgument
    \/ ReportMissingArgument
    \/ ExitMissingArg
    \/ InvokeProvider
    \/ ProviderFulfil
    \/ ProviderReject
    \/ ResumeFulfilled
    \/ ResumeRejected
    \/ EmitSuccess
    \/ ImplicitExit
    \/ ReportFailure
    \/ ExitFailure
    \/ UnhandledRejection

Spec == Init /\ [][Next]_vars

\* The runtime keeps running main() while it has a step to take; nothing
\* obliges the Provider to settle.
FairSpec == Spec /\ WF_vars(Main)

(***************************************************************************)
(* Vocabulary of the properties                                            *)
(***************************************************************************)
TermMissing == Len(argv) < 3 \/ argv[3] = ""
TermGiven == ~TermMissing
Exited == pc = "Exited"
Settled == provider.status \in {"fulfilled", "rejected"}
ReturnedArray == provider.status = "fulfilled" /\ provider.value.t = "array"

\* The single-line JSON text of an ErrorReport with the given message.
ErrorLine(m) == "{\"error\":\"" \o m \o "\"}"

MissingArgumentLine == "{\"error\":\"No search term provided.\"}"

\* The messages a failure of the model can carry, as text.
UnderlyingMessages ==
    Messages \cup {"undefined", "null", "[object Object]", "timeout", "no articles",
                   "Converting circular structure to JSON"}

ScraperFailedLines == {ErrorLine("Scraper failed: " \o m) : m \in UnderlyingMessages}
ErrorLines == ScraperFailedLines \cup {MissingArgumentLine}

ScraperFailedReported == \E i \in 1..Len(stderr) : stderr[i] \in ScraperFailedLines
ErrorReportWritten == \E i \in 1..Len(stderr) : stderr[i] \in ErrorLines

\* stdout holds exactly one write, which reads back as the Provider's array.
FullResultWritten ==
    /\ ReturnedArray
    /\ Len(stdout) = 1
    /\ JSONparse(stdout[1]) = provider.value.items

IsPrefix(p, q) == Len(p) <= Len(q) /\ SubSeq(q, 1, Len(p)) = p

(***************************************************************************)
(* C1: in a run whose search term is absent or empty the Provider is never *)
(* invoked, nothing is written to stdout, stderr receives exactly the one  *)
(* report {"error":"No search term provided."} and nothing after it, and   *)
(* the process ends with exit status 1.                                    *)
(***************************************************************************)
C1_Safety ==
    TermMissing =>
        /\ calls = 0
        /\ provider = Idle
        /\ stdout = <<>>
        /\ stderr \in {<<>>, <<MissingArgumentLine>>}
        /\ Exited => (stderr = <<MissingArgumentLine>> /\ exitCode = 1)

C1_MissingArgument ==
    /\ []C1_Safety
    /\ (TermMissing ~> (Exited /\ exitCode = 1))

C1_Witness ==
    /\ Len(argv) = 3
    /\ argv[3] = ""
    /\ Exited
    /\ stderr = <<MissingArgumentLine>>

(***************************************************************************)
(* C2: in a run with a non-empty search term whose Provider call fails,    *)
(* whatever the Provider fails with, stderr holds exactly one single-line  *)
(* report whose message is "Scraper failed: " followed by the underlying   *)
(* message, stdout is empty and the exit status is 1.                      *)
(***************************************************************************)
C2_ProviderFailureReported ==
    (TermGiven /\ provider.status = "rejected" /\ Exited) =>
        /\ stdout = <<>>
        /\ exitCode = 1
        /\ Len(stderr) = 1
        /\ stderr[1] \in ScraperFailedLines
        /\ "message" \in DOMAIN provider.value =>
               stderr[1] = ErrorLine("Scraper failed: " \o provider.value.message)

(***************************************************************************)
(* C3: when the Provider returns an array R, stdout receives at most one   *)
(* write, that write is the indented serialization of R and reads back as  *)
(* exactly R (same articles, same members, same order), stderr stays       *)
(* empty, and the run ends with that one write made and exit status 0.     *)
(***************************************************************************)
C3_PassThrough ==
    ReturnedArray =>
        /\ stderr = <<>>
        /\ Len(stdout) <= 1
        /\ stdout # <<>> =>
               /\ stdout[1] = StringifyArray(provider.value.items, 0)
               /\ JSONparse(stdout[1]) = provider.value.items
        /\ Exited => (Len(stdout) = 1 /\ exitCode = 0)

C3_Witness ==
    /\ Exited
    /\ ReturnedArray
    /\ Len(provider.value.items) = 2
    /\ provider.value.items[1] # provider.value.items[2]
    /\ Len(stdout) = 1

(***************************************************************************)
(* C4: the Provider is never invoked more than once; a finished run with a *)
(* non-empty search term has invoked it exactly once, and a run with a     *)
(* missing argument never invokes it.                                      *)
(***************************************************************************)
C4_SingleInvocation ==
    /\ calls <= 1
    /\ TermMissing => calls = 0
    /\ (TermGiven /\ Exited) => calls = 1

C4_Witness ==
    /\ Exited
    /\ TermGiven
    /\ provider.status = "rejected"
    /\ calls = 1

(***************************************************************************)
(* C5: the configuration the Provider receives has the run's argument,     *)
(* verbatim, as searchTerm and the same fixed values in every other field  *)
(* (7 days, limit 15, readable URLs, the two sandbox flags, error log      *)
(* level), whatever the term is.                                           *)
(***************************************************************************)
C5_FixedConfiguration ==
    IF calls = 0
    THEN config = Undefined
    ELSE config = [searchTerm |-> argv[3],
                   prettyURLs |-> TRUE,
                   timeframe |-> "7d",
                   puppeteerArgs |-> <<"--no-sandbox", "--disable-setuid-sandbox">>,
                   logLevel |-> "error",
                   limit |-> 15]

C5_Witness ==
    /\ calls = 1
    /\ argv[3] = " x "
    /\ config.searchTerm = " x "

(***************************************************************************)
(* C6: stdout and stderr are never both non-empty; a terminated run has    *)
(* exit status 0 exactly when the full result was written to stdout and    *)
(* exit status 1 exactly when an ErrorReport was written to stderr; stdout *)
(* holds nothing or the complete result.                                   *)
(***************************************************************************)
C6_OutputProtocol ==
    /\ ~(stdout # <<>> /\ stderr # <<>>)
    /\ stdout = <<>> \/ FullResultWritten
    /\ Exited =>
           /\ (exitCode = 0) <=> FullResultWritten
           /\ (exitCode = 1) <=> ErrorReportWritten

(***************************************************************************)
(* C7 as stated: a run that ends successfully has written at most          *)
(* ResultLimit articles to stdout, for every array the Provider returns.   *)
(***************************************************************************)
C7_AtMostLimit ==
    (Exited /\ exitCode = 0 /\ stdout # <<>>) =>
        Len(JSONparse(stdout[1])) <= ResultLimit

(***************************************************************************)
(* C7 amended: the result written to stdout has exactly as many articles   *)
(* as the Provider returned; the limit of 15 is only asked of the Provider *)
(* through the configuration, so the output stays within it exactly when   *)
(* the Provider honours it.                                                *)
(***************************************************************************)
C7_LengthPreserved ==
    stdout # <<>> =>
        /\ ReturnedArray
        /\ config.limit = 15
        /\ Len(JSONparse(stdout[1])) = Len(provider.value.items)

C7_Witness ==
    /\ Exited
    /\ exitCode = 0
    /\ ReturnedArray
    /\ Len(provider.value.items) > ResultLimit
    /\ stdout # <<>>

(***************************************************************************)
(* C8: every run goes through one of exactly three sequences of design     *)
(* states, and an Exit state has no successor.                             *)
(***************************************************************************)
PathMissingArg ==
    <<"Start", "ValidatingArgument", "Failing(missingArg)", "Emitting(error)", "Exit(1)">>
PathSuccess ==
    <<"Start", "ValidatingArgument", "Retrieving", "Emitting(success)", "Exit(0)">>
PathFailure ==
    <<"Start", "ValidatingArgument", "Retrieving", "Failing", "Emitting(error)", "Exit(1)">>

C8_ThreePaths ==
    \E q \in {PathMissingArg, PathSuccess, PathFailure} :
        /\ IsPrefix(path, q)
        /\ Exited => path = q

(***************************************************************************)
(* C9: in a run with a non-empty search term nothing is written and the    *)
(* process does not exit before the Provider call has settled, so a call   *)
(* that never settles leaves the run silent and alive; once the call has   *)
(* settled the process eventually exits with status 0 or 1.                *)
(***************************************************************************)
C9_Safety ==
    (TermGiven /\ ~Settled) =>
        /\ stdout = <<>>
        /\ stderr = <<>>
        /\ ~Exited

C9_WaitsForProvider ==
    /\ []C9_Safety
    /\ (Settled ~> (Exited /\ exitCode \in {0, 1}))

C9_Witness ==
    /\ Exited
    /\ TermGiven
    /\ provider.status = "rejected"
    /\ stderr # <<>>
    /\ exitCode = 1

(***************************************************************************)
(* C10 as stated: a "Scraper failed" report is written only when the       *)
(* Provider call failed; a run whose Provider returned a value, whatever   *)
(* the value, never ends with such a report or with exit status 1.         *)
(***************************************************************************)
C10_OnlyProviderFailure ==
    /\ ScraperFailedReported => provider.status = "rejected"
    /\ (provider.status = "fulfilled" /\ Exited) => exitCode # 1

(***************************************************************************)
(* C10 amended: a "Scraper failed" report is written only when the         *)
(* Provider call failed or the value it returned cannot be serialized; a   *)
(* run whose Provider returned a serializable value never ends with such a *)
(* report or with exit status 1, and a run whose Provider returned an      *)
(* unserializable value ends with one "Scraper failed" report, an empty    *)
(* stdout and exit status 1.                                               *)
(***************************************************************************)
C10_FailureKinds ==
    /\ ScraperFailedReported =>
           \/ provider.status = "rejected"
           \/ provider.status = "fulfilled" /\ provider.value = Circular
    /\ (ReturnedArray /\ Exited) => (exitCode = 0 /\ stderr = <<>>)
    /\ (provider.status = "fulfilled" /\ provider.value = Circular /\ Exited) =>
           /\ exitCode = 1
           /\ stdout = <<>>
           /\ Len(stderr) = 1
           /\ stderr[1] \in ScraperFailedLines

C10_Witness ==
    /\ Exited
    /\ provider.status = "fulfilled"
    /\ provider.value = Circular
    /\ ScraperFailedReported

====
